---- MODULE Spec2Model ----
(***************************************************************************)
(* A model of docs-site/scripts/sync_wiki.py (class WikiSync).             *)
(*                                                                         *)
(* Strings are sequences of one-character strings, so that str.replace,    *)
(* str.lstrip, str.endswith, the link regular expression and pathlib's     *)
(* part-wise operations are computed the way Python computes them.         *)
(***************************************************************************)
EXTENDS Integers, Sequences, FiniteSets, TLC

VARIABLES
    config,          \* self.config (the fields the code reads)
    dry_run,         \* self.dry_run
    docs_exists,     \* self.docs_dir.exists()
    docs,            \* the *.md files under docs_dir, as relative paths
    readme_exists,   \* (docs_dir.parent / 'README.md').exists()
    wiki_state,      \* wiki_dir: "absent" | "dir" (no .git) | "repo"
    wiki,            \* files of wiki_dir: records [name, kind, src, content]
    pc,              \* position of run()
    pending,         \* files rglob has not yet handed to sync_file
    yielded,         \* the files rglob has handed to sync_file, in its order
    file_result,     \* relative path -> what sync_file did with it
    setup_result,    \* what setup_wiki_repo returned ("none" before)
    home_result,     \* what create_home_page returned ("none" before)
    sidebar_result,  \* what create_sidebar returned ("none" before)
    sync_result,     \* what sync_docs returned ("none" before)
    run_result,      \* what run() returned ("none" before)
    vc_failure,      \* the version-control command that failed ("none")
    subprocess_calls,\* the git commands run, in order
    fs_mutations,    \* number of write/mkdir/unlink/rmtree calls on wiki_dir
    written,         \* names this run wrote into wiki_dir
    success,         \* sync_docs' local variable success
    sidebar,         \* the lines of _Sidebar.md as create_sidebar wrote them
    rel_path,        \* PathSpec: the argument of transform_path
    mapped,          \* PathSpec: its result
    content,         \* PathSpec: the argument of convert_links
    converted,       \* PathSpec: its result
    step             \* PathSpec: position

vars == <<config, dry_run, docs_exists, docs, readme_exists, wiki_state, wiki,
          pc, pending, yielded, file_result, setup_result, home_result, sidebar_result, sync_result,
          run_result, vc_failure, subprocess_calls, fs_mutations, written,
          success, sidebar, rel_path, mapped, content, converted, step>>

runVars == <<dry_run, docs_exists, docs, readme_exists, wiki_state, wiki,
             pc, pending, yielded, file_result, setup_result, home_result, sidebar_result,
             sync_result, run_result, vc_failure, subprocess_calls,
             fs_mutations, written, success, sidebar>>

pathVars == <<rel_path, mapped, content, converted, step>>

----------------------------------------------------------------------------
(* Bounds of the model.                                                    *)

\* longest relative path PathSpec enumerates
MaxLen == 4

\* most *.md files a source tree holds
MaxFiles == 2

----------------------------------------------------------------------------
(* Python's str operations on sequences of characters.                     *)

\* the literal '.md' of lines 137, 143, 146, 159 and 165
DotMd == <<".", "m", "d">>

\* s[i:] (1-based i)
Tail_(s, i) == SubSeq(s, i, Len(s))

\* s.startswith(p) at position i
StartsAt(s, i, p) ==
    /\ i + Len(p) - 1 <= Len(s)
    /\ SubSeq(s, i, i + Len(p) - 1) = p

\* s.endswith(suf)
endswith(s, suf) ==
    /\ Len(suf) <= Len(s)
    /\ SubSeq(s, Len(s) - Len(suf) + 1, Len(s)) = suf

\* s.replace(old, new): every non-overlapping occurrence, left to right
RECURSIVE replace(_, _, _)
replace(s, old, new) ==
    IF s = <<>> THEN <<>>
    ELSE IF StartsAt(s, 1, old)
         THEN new \o replace(Tail_(s, Len(old) + 1), old, new)
         ELSE <<Head(s)>> \o replace(Tail(s), old, new)

\* s.lstrip(chars): drops every leading character that is in chars
RECURSIVE lstrip(_, _)
lstrip(s, chars) ==
    IF s # <<>> /\ Head(s) \in chars THEN lstrip(Tail(s), chars) ELSE s

\* the first index >= from at which s holds c, or 0
RECURSIVE IndexOf(_, _, _)
IndexOf(s, c, from) ==
    IF from > Len(s) THEN 0
    ELSE IF s[from] = c THEN from
    ELSE IndexOf(s, c, from + 1)

\* the last index at which s holds c, or 0
RECURSIVE LastIndexOf(_, _, _)
LastIndexOf(s, c, upto) ==
    IF upto < 1 THEN 0
    ELSE IF s[upto] = c THEN upto
    ELSE LastIndexOf(s, c, upto - 1)

\* s.split('/') without empty parts: the parts of a relative pathlib path
RECURSIVE Parts(_)
Parts(s) ==
    IF s = <<>> THEN <<>>
    ELSE LET i == IndexOf(s, "/", 1) IN
         IF i = 0 THEN <<s>>
         ELSE IF i = 1 THEN Parts(Tail(s))
         ELSE <<SubSeq(s, 1, i - 1)>> \o Parts(Tail_(s, i + 1))

----------------------------------------------------------------------------
(* transform_path                                                          *)

\* the first mapping of customMappings whose source is rel, or 0
RECURSIVE FirstMapping(_, _, _)
FirstMapping(custom_mappings, rel, i) ==
    IF i > Len(custom_mappings) THEN 0
    ELSE IF custom_mappings[i].source = rel THEN i
    ELSE FirstMapping(custom_mappings, rel, i + 1)

\* `.replace('.md', '')` as lines 137, 143 and 146 apply it
strip_md(s) == replace(s, DotMd, <<>>)

transform_path(rel) ==
    LET custom_mappings == config.customMappings
        m == FirstMapping(custom_mappings, rel, 1)
    IN  IF m # 0
        THEN strip_md(custom_mappings[m].target)
        ELSE IF config.pathTransform.type = "flatten"
             THEN strip_md(replace(rel, <<"/">>, config.pathTransform.separator))
             ELSE strip_md(rel)

----------------------------------------------------------------------------
(* convert_links                                                           *)

\* replace_link (lines 154-163): the rewritten target of one match
replace_link(path) ==
    LET p1 == lstrip(path, {".", "/"})
        p2 == IF endswith(p1, DotMd) THEN SubSeq(p1, 1, Len(p1) - 3) ELSE p1
    IN  transform_path(p2)

\* The pattern \[([^\]]+)\]\(([^)]+\.md)\) tried at position i: the label
\* runs to the first "]", which a "(" follows; the target runs to the first
\* ")", is at least one character and then ".md".  <<j, k>> are the places
\* of that "]" and ")"; <<>> when the pattern does not match at i.
MatchAt(s, i) ==
    IF s[i] # "[" THEN <<>>
    ELSE LET j == IndexOf(s, "]", i + 1) IN
         IF j = 0 \/ j = i + 1 \/ j + 1 > Len(s) THEN <<>>
         ELSE IF s[j + 1] # "(" THEN <<>>
         ELSE LET k == IndexOf(s, ")", j + 2) IN
              IF k = 0 THEN <<>>
              ELSE LET target == SubSeq(s, j + 2, k - 1) IN
                   IF Len(target) >= 4 /\ endswith(target, DotMd)
                   THEN <<j, k>> ELSE <<>>

\* re.sub(pattern, replace_link, content) from position i on
RECURSIVE re_sub(_, _)
re_sub(s, i) ==
    IF i > Len(s) THEN <<>>
    ELSE LET m == MatchAt(s, i) IN
         IF m = <<>> THEN <<s[i]>> \o re_sub(s, i + 1)
         ELSE <<"[">> \o SubSeq(s, i + 1, m[1] - 1) \o <<"]", "(">>
              \o replace_link(SubSeq(s, m[1] + 2, m[2] - 1)) \o <<")">>
              \o re_sub(s, m[2] + 1)

convert_links(text) ==
    IF ~config.convertRelativeLinks THEN text ELSE re_sub(text, 1)

----------------------------------------------------------------------------
(* Characters: str.title() and the order sorted() puts paths in.           *)

Lowers == <<"a", "b", "c", "d", "e", "f", "g", "h", "i", "j", "k", "l", "m",
            "n", "o", "p", "q", "r", "s", "t", "u", "v", "w", "x", "y", "z">>

Uppers == <<"A", "B", "C", "D", "E", "F", "G", "H", "I", "J", "K", "L", "M",
            "N", "O", "P", "Q", "R", "S", "T", "U", "V", "W", "X", "Y", "Z">>

IsLower(c) == \E i \in 1..26 : Lowers[i] = c

IsUpper(c) == \E i \in 1..26 : Uppers[i] = c

ToUpper(c) == IF IsLower(c) THEN Uppers[CHOOSE i \in 1..26 : Lowers[i] = c] ELSE c

ToLower(c) == IF IsUpper(c) THEN Lowers[CHOOSE i \in 1..26 : Uppers[i] = c] ELSE c

\* ord(c) for the characters file names are made of here
CodePoint(c) ==
    IF IsLower(c) THEN 96 + (CHOOSE i \in 1..26 : Lowers[i] = c)
    ELSE IF IsUpper(c) THEN 64 + (CHOOSE i \in 1..26 : Uppers[i] = c)
    ELSE CASE c = " " -> 32
           [] c = "-" -> 45
           [] c = "." -> 46
           [] c = "/" -> 47
           [] c = "_" -> 95

\* str.title(): a cased character is upper-cased after an uncased one and
\* lower-cased after a cased one
RECURSIVE title_from(_, _)
title_from(s, previous_is_cased) ==
    IF s = <<>> THEN <<>>
    ELSE LET c == Head(s) IN
         IF IsLower(c) \/ IsUpper(c)
         THEN <<IF previous_is_cased THEN ToLower(c) ELSE ToUpper(c)>>
              \o title_from(Tail(s), TRUE)
         ELSE <<c>> \o title_from(Tail(s), FALSE)

title(s) == title_from(s, FALSE)

\* a < b for two str
RECURSIVE StrLess(_, _)
StrLess(a, b) ==
    IF b = <<>> THEN FALSE
    ELSE IF a = <<>> THEN TRUE
    ELSE IF Head(a) = Head(b) THEN StrLess(Tail(a), Tail(b))
    ELSE CodePoint(Head(a)) < CodePoint(Head(b))

\* a < b for two PurePosixPath: their lists of parts are compared
RECURSIVE PartsLess(_, _)
PartsLess(a, b) ==
    IF b = <<>> THEN FALSE
    ELSE IF a = <<>> THEN TRUE
    ELSE IF Head(a) = Head(b) THEN PartsLess(Tail(a), Tail(b))
    ELSE StrLess(Head(a), Head(b))

\* sorted(S) for a set of relative paths
RECURSIVE sorted(_)
sorted(S) ==
    IF S = {} THEN <<>>
    ELSE LET least == CHOOSE p \in S :
                        \A q \in S \ {p} : PartsLess(Parts(p), Parts(q))
         IN  <<least>> \o sorted(S \ {least})

----------------------------------------------------------------------------
(* pathlib                                                                 *)

\* self.docs_dir, as Path('./docs') prints
DocsDir == <<"d", "o", "c", "s">>

\* self.docs_dir / rel
DocsPath(rel) == DocsDir \o <<"/">> \o rel

\* self.docs_dir.parent / 'README.md'
ReadmePath == <<"R", "E", "A", "D", "M", "E", ".", "m", "d">>

\* PurePath.name
PathName(p) == LET ps == Parts(p) IN IF ps = <<>> THEN <<>> ELSE ps[Len(ps)]

\* rel_path.parent.name ('' for a file directly under docs_dir)
ParentName(rel) ==
    LET ps == Parts(rel) IN IF Len(ps) < 2 THEN <<>> ELSE ps[Len(ps) - 1]

\* PurePath.stem: the name up to its last dot, unless that dot is the
\* name's first or last character
PathStem(p) ==
    LET name == PathName(p)
        i == LastIndexOf(name, ".", Len(name))
    IN  IF 1 < i /\ i < Len(name) THEN SubSeq(name, 1, i - 1) ELSE name

\* fnmatch.fnmatchcase(name, pat) for patterns of literals, '*' and '?'
RECURSIVE fnmatchcase(_, _)
fnmatchcase(name, pat) ==
    IF pat = <<>> THEN name = <<>>
    ELSE IF Head(pat) = "*"
         THEN \/ fnmatchcase(name, Tail(pat))
              \/ name # <<>> /\ fnmatchcase(Tail(name), pat)
    ELSE IF name = <<>> THEN FALSE
    ELSE IF Head(pat) = "?" THEN fnmatchcase(Tail(name), Tail(pat))
    ELSE Head(name) = Head(pat) /\ fnmatchcase(Tail(name), Tail(pat))

\* PurePath.match(pattern) for a relative pattern: its parts are matched
\* against the path's last parts
PathMatch(p, pattern) ==
    LET parts == Parts(p)
        pat_parts == Parts(pattern)
        off == Len(parts) - Len(pat_parts)
    IN  /\ off >= 0
        /\ \A i \in 1..Len(pat_parts) : fnmatchcase(parts[off + i], pat_parts[i])

should_exclude(file_path) ==
    \E i \in 1..Len(config.excludePatterns) :
        PathMatch(file_path, config.excludePatterns[i])

----------------------------------------------------------------------------
(* add_header                                                              *)

\* datetime.now().strftime('%Y-%m-%d %H:%M:%S'): one opaque piece of text
Now == "YYYY-MM-DD HH:MM:SS"

\* template.format(source=..., date=...): the template is a sequence of
\* pieces of text, "{source}" and "{date}" being the two placeholders
RECURSIVE format(_, _)
format(template, source_file) ==
    IF template = <<>> THEN <<>>
    ELSE (IF Head(template) = "{source}" THEN source_file
          ELSE IF Head(template) = "{date}" THEN <<Now>>
          ELSE <<Head(template)>>) \o format(Tail(template), source_file)

add_header(text, source_file) ==
    IF ~config.addSourceHeader THEN text
    ELSE IF config.customHeaders.enabled
         THEN format(config.customHeaders.template, source_file)
              \o <<"\n", "\n">> \o text
         ELSE text

----------------------------------------------------------------------------
(* The source trees, destination directories and configurations a run      *)
(* starts from.                                                            *)

IntroMd == <<"i", ".", "m", "d">>

GuideMd == <<"a", "/", "x", ".", "m", "d">>

NestedMd == <<"k", "-", "l", "/", "y", ".", "m", "d">>

\* the *.md files a docs tree is drawn from: one directly under docs_dir,
\* one in a directory sorted before it and one in a directory sorted after
Universe == {IntroMd, GuideMd, NestedMd}

\* [label](target)
Link(label, target) == <<"[">> \o label \o <<"]", "(">> \o target \o <<")">>

\* the document each document links to, as ./<relative path>
LinkedFrom(rel) ==
    CASE rel = IntroMd -> GuideMd
      [] rel = GuideMd -> IntroMd
      [] rel = NestedMd -> GuideMd

\* source_file.read_text() of a document of the tree
DocText(rel) ==
    <<"#", " ">> \o Link(<<"s", "e", "e">>, <<".", "/">> \o LinkedFrom(rel))

\* read_text() of the README one level above docs_dir
ReadmeText == Link(<<"d">>, DocsPath(IntroMd))

HomeMd == <<"H", "o", "m", "e", ".", "m", "d">>

SidebarMd == <<"_", "S", "i", "d", "e", "b", "a", "r", ".", "m", "d">>

OldMd == <<"o", "l", "d", ".", "m", "d">>

\* what the wiki repository holds before the run: one page of an earlier sync
RemoteWiki == {[name |-> OldMd, kind |-> "stale", src |-> <<>>, content |-> <<>>]}

ExcludeChoices ==
    { <<>>, <<IntroMd>>, << <<"a", "/", "*">> >> }

\* customMappings: none, or two documents given one and the same target
MappingChoices ==
    { <<>>,
      <<[source |-> GuideMd, target |-> <<"g", ".", "m", "d">>],
        [source |-> NestedMd, target |-> <<"g", ".", "m", "d">>]>> }

\* get_default_config()'s shape, with the optional keys the code reads
Config(clean, excl, sidebar_on, maps, type, links, header) ==
    [ cleanBeforeSync |-> clean,
      excludePatterns |-> excl,
      homePageSource |-> IntroMd,
      createSidebar |-> sidebar_on,
      sidebarTitle |-> <<"Navigation">>,
      customMappings |-> maps,
      pathTransform |-> [type |-> type, separator |-> <<"-">>],
      convertRelativeLinks |-> links,
      addSourceHeader |-> header,
      customHeaders |-> [enabled |-> TRUE,
                         template |-> <<"<!-- Generated from: ", "{source}", " -->">>] ]

RunConfigs ==
    { Config(clean, excl, sidebar_on, maps, type, lh[1], lh[2]) :
        clean \in BOOLEAN, excl \in ExcludeChoices, sidebar_on \in BOOLEAN,
        maps \in MappingChoices, type \in {"identity", "flatten"},
        lh \in {<<TRUE, TRUE>>, <<FALSE, FALSE>>} }

Trees == {T \in SUBSET Universe : Cardinality(T) <= MaxFiles}

PathIdle ==
    /\ rel_path = <<>>
    /\ mapped = <<>>
    /\ content = <<>>
    /\ converted = <<>>
    /\ step = "idle"

Init ==
    /\ config \in RunConfigs
    /\ dry_run \in BOOLEAN
    /\ docs_exists \in BOOLEAN
    /\ docs \in (IF docs_exists THEN Trees ELSE {{}})
    /\ readme_exists \in BOOLEAN
    /\ wiki_state \in {"absent", "dir", "repo"}
    /\ wiki = (IF wiki_state = "absent" THEN {} ELSE RemoteWiki)
    /\ pc = "start"
    /\ pending = {}
    /\ yielded = <<>>
    /\ file_result = [f \in docs |-> "none"]
    /\ setup_result = "none"
    /\ home_result = "none"
    /\ sidebar_result = "none"
    /\ sync_result = "none"
    /\ run_result = "none"
    /\ vc_failure = "none"
    /\ subprocess_calls = <<>>
    /\ fs_mutations = 0
    /\ written = {}
    /\ success = TRUE
    /\ sidebar = <<>>
    /\ PathIdle

----------------------------------------------------------------------------
(* Destination files.                                                      *)

\* wiki_file.write_text(text): creates the file or replaces what it held
WriteText(w, name, kind, src, text) ==
    {e \in w : e.name # name}
        \cup {[name |-> name, kind |-> kind, src |-> src, content |-> text]}

Names(w) == {e.name : e \in w}

\* wiki_dir / f"{wiki_name}.md"
WikiFile(wiki_name) == wiki_name \o DotMd

----------------------------------------------------------------------------
(* run() and the phases it calls, in the order it calls them.              *)

\* a Python bool as the result variables record it
Py(b) == IF b THEN "True" ELSE "False"

\* a faulty run(): the result of setup_wiki_repo is not looked at
AfterSetup_ignored(ok) == "sync_docs"

\* run(), lines 403-404: `if not self.setup_wiki_repo(): return False`
AfterSetup(ok) == IF ok THEN "sync_docs" ELSE "done"

\* a faulty run(): push_changes follows sync_docs whatever it returned
AfterSync_ignored(ok) == "push"

\* run(), lines 407-408: `if not self.sync_docs(): return False`
AfterSync(ok) == IF ok THEN "push" ELSE "done"

\* setup_wiki_repo: git pull in an existing clone, else rmtree and git clone
SetupWikiRepo ==
    /\ pc = "start"
    /\ IF dry_run
       THEN /\ setup_result' = "True"
            /\ pc' = AfterSetup(TRUE)
            /\ UNCHANGED <<wiki_state, wiki, subprocess_calls, fs_mutations,
                           vc_failure, run_result>>
       ELSE IF wiki_state = "repo"
       THEN \E ok \in BOOLEAN :
            /\ subprocess_calls' = Append(subprocess_calls, "git pull")
            /\ vc_failure' = (IF ok THEN "none" ELSE "pull")
            /\ setup_result' = Py(ok)
            /\ pc' = AfterSetup(ok)
            /\ run_result' = (IF pc' = "done" THEN "False" ELSE run_result)
            /\ UNCHANGED <<wiki_state, wiki, fs_mutations>>
       ELSE \E outcome \in {"ok", "clone_failed"}
                             \cup (IF wiki_state = "dir" THEN {"rmtree_error"} ELSE {}) :
            IF outcome = "rmtree_error"
            THEN /\ setup_result' = "False"
                 /\ pc' = AfterSetup(FALSE)
                 /\ run_result' = (IF pc' = "done" THEN "False" ELSE run_result)
                 /\ UNCHANGED <<wiki_state, wiki, subprocess_calls,
                                fs_mutations, vc_failure>>
            ELSE /\ fs_mutations' = fs_mutations + (IF wiki_state = "dir" THEN 1 ELSE 0)
                 /\ subprocess_calls' = Append(subprocess_calls, "git clone")
                 /\ wiki_state' = (IF outcome = "ok" THEN "repo" ELSE "absent")
                 /\ wiki' = (IF outcome = "ok" THEN RemoteWiki ELSE {})
                 /\ vc_failure' = (IF outcome = "ok" THEN "none" ELSE "clone")
                 /\ setup_result' = Py(outcome = "ok")
                 /\ pc' = AfterSetup(outcome = "ok")
                 /\ run_result' = (IF pc' = "done" THEN "False" ELSE run_result)
    /\ UNCHANGED <<config, dry_run, docs_exists, docs, readme_exists, pending,
                   yielded, file_result, home_result, sidebar_result, sync_result,
                   written, success, sidebar>>
    /\ UNCHANGED pathVars

\* sync_docs, line 306: `if self.dry_run:` ahead of the cleaning loop
clean_is_dry == dry_run

\* the entries of wiki_dir.iterdir() other than .git
TopLevel(w) == {Parts(e.name)[1] : e \in w}

\* sync_docs up to the call of create_home_page: the missing-directory
\* return, and the cleaning of wiki_dir, which no try block surrounds
SyncDocsBegin ==
    /\ pc = "sync_docs"
    /\ IF ~docs_exists
       THEN /\ sync_result' = "False"
            /\ pc' = AfterSync(FALSE)
            /\ run_result' = (IF pc' = "done" THEN "False" ELSE run_result)
            /\ UNCHANGED <<wiki, fs_mutations, pending>>
       ELSE IF config.cleanBeforeSync /\ ~clean_is_dry
       THEN \/ /\ wiki' = {}
               /\ fs_mutations' = fs_mutations + Cardinality(TopLevel(wiki))
               /\ pc' = "home"
               /\ pending' = docs
               /\ UNCHANGED <<sync_result, run_result>>
            \/ \E kept \in (SUBSET wiki) \ {{}} :
               /\ wiki' = kept
               /\ fs_mutations' = fs_mutations
                                    + Cardinality(TopLevel(wiki) \ TopLevel(kept))
               /\ pc' = "crashed"
               /\ run_result' = "exception"
               /\ UNCHANGED <<sync_result, pending>>
       ELSE /\ pc' = "home"
            /\ pending' = docs
            /\ UNCHANGED <<wiki, fs_mutations, sync_result, run_result>>
    /\ UNCHANGED <<config, dry_run, docs_exists, docs, readme_exists,
                   wiki_state, yielded, file_result, setup_result, home_result,
                   sidebar_result, vc_failure, subprocess_calls, written,
                   success, sidebar>>
    /\ UNCHANGED pathVars

\* create_home_page, lines 220-228: the configured source, else the README
\* above docs_dir, else none (the empty sequence)
HomeSource ==
    IF config.homePageSource \in docs THEN <<DocsPath(config.homePageSource)>>
    ELSE IF readme_exists THEN <<ReadmePath>>
    ELSE <<>>

\* source_file.read_text() of line 237
HomeText ==
    IF config.homePageSource \in docs THEN DocText(config.homePageSource)
    ELSE ReadmeText

\* create_home_page, line 232: `if self.dry_run:`
home_is_dry == dry_run

CreateHomePage ==
    /\ pc = "home"
    /\ IF HomeSource = <<>>
       THEN /\ home_result' = "False"
            /\ UNCHANGED <<wiki, fs_mutations, written>>
       ELSE IF home_is_dry
       THEN /\ home_result' = "True"
            /\ UNCHANGED <<wiki, fs_mutations, written>>
       ELSE \/ /\ wiki' = WriteText(wiki, HomeMd, "home", HomeSource[1],
                                    convert_links(HomeText))
               /\ fs_mutations' = fs_mutations + 1
               /\ written' = written \cup {HomeMd}
               /\ home_result' = "True"
            \/ /\ home_result' = "False"
               /\ UNCHANGED <<wiki, fs_mutations, written>>
    /\ pc' = (IF pending = {} THEN "sidebar" ELSE "files")
    /\ UNCHANGED <<config, dry_run, docs_exists, docs, readme_exists,
                   wiki_state, pending, yielded, file_result, setup_result,
                   sidebar_result, sync_result, run_result, vc_failure,
                   subprocess_calls, success, sidebar>>
    /\ UNCHANGED pathVars

\* a faulty sync_file: the exclusion test is missing
sync_file_excludes_nothing(f) == FALSE

\* sync_file, line 189: `if self.should_exclude(source_file):`
sync_file_excludes(f) == should_exclude(DocsPath(f))

\* sync_file, line 199: `if self.dry_run:`
sync_file_is_dry == dry_run

\* sync_docs, lines 323-324: `if not self.sync_file(md_file): success = False`
Accumulate(so_far, ok) == IF ~ok THEN FALSE ELSE so_far

\* a faulty sync_docs: the loop breaks at the first file that fails
LoopStopsOnFailure(left, ok) == left # {} /\ ok

\* sync_docs, line 322: whether the loop goes on to the files that are left
LoopContinues(left, ok) == left # {}

\* one turn of the loop of sync_docs: sync_file(f) for a file rglob yields
\* (in an order the file system decides) and the update of success
SyncFile(f) ==
    /\ pc = "files"
    /\ f \in pending
    /\ \E outcome \in (IF sync_file_excludes(f) THEN {"excluded"}
                       ELSE IF sync_file_is_dry THEN {"dry"}
                       ELSE {"written", "read_error", "write_error"}) :
        LET ok == outcome \notin {"read_error", "write_error"}
            wiki_name == transform_path(f)
        IN  /\ file_result' = [file_result EXCEPT ![f] = outcome]
            /\ success' = Accumulate(success, ok)
            /\ pc' = (IF LoopContinues(pending \ {f}, ok) THEN "files" ELSE "sidebar")
            /\ IF outcome = "written"
               THEN /\ wiki' = WriteText(wiki, WikiFile(wiki_name), "doc", f,
                                         add_header(convert_links(DocText(f)), f))
                    /\ fs_mutations' = fs_mutations + 2
                    /\ written' = written \cup {WikiFile(wiki_name)}
               ELSE IF outcome = "write_error"
               THEN /\ fs_mutations' = fs_mutations + 1
                    /\ UNCHANGED <<wiki, written>>
               ELSE UNCHANGED <<wiki, fs_mutations, written>>
    /\ pending' = pending \ {f}
    /\ yielded' = Append(yielded, f)
    /\ UNCHANGED <<config, dry_run, docs_exists, docs, readme_exists,
                   wiki_state, setup_result, home_result, sidebar_result,
                   sync_result, run_result, vc_failure, subprocess_calls,
                   sidebar>>
    /\ UNCHANGED pathVars

----------------------------------------------------------------------------
(* create_sidebar                                                          *)

Root == <<"r", "o", "o", "t">>

\* line 273: rel_path.parent.name if rel_path.parent.name else 'root'
DirName(rel) == IF ParentName(rel) = <<>> THEN Root ELSE ParentName(rel)

\* line 279: md_file.stem.replace('-', ' ').title()
DisplayName(rel) == title(replace(PathStem(rel), <<"-">>, <<" ">>))

\* the index of dir_name's group in files_by_dir, or 0
RECURSIVE GroupIndex(_, _, _)
GroupIndex(groups, dir_name, i) ==
    IF i > Len(groups) THEN 0
    ELSE IF groups[i].dir_name = dir_name THEN i
    ELSE GroupIndex(groups, dir_name, i + 1)

\* lines 268-280: files_by_dir, a dict, which keeps its keys in the order
\* they were first inserted, filled from the sorted files not excluded
RECURSIVE FilesByDir(_, _)
FilesByDir(files, groups) ==
    IF files = <<>> THEN groups
    ELSE LET rel == Head(files)
             entry == [kind |-> "entry", text |-> DisplayName(rel),
                       target |-> transform_path(rel), src |-> rel]
             g == GroupIndex(groups, DirName(rel), 1)
         IN  IF should_exclude(DocsPath(rel)) THEN FilesByDir(Tail(files), groups)
             ELSE IF g = 0
             THEN FilesByDir(Tail(files),
                     Append(groups, [dir_name |-> DirName(rel), files |-> <<entry>>]))
             ELSE FilesByDir(Tail(files),
                     [groups EXCEPT ![g].files = Append(@, entry)])

\* lines 283-288: a heading for every group but 'root', then its entries
RECURSIVE GroupLines(_)
GroupLines(groups) ==
    IF groups = <<>> THEN <<>>
    ELSE LET g == Head(groups) IN
         (IF g.dir_name # Root
          THEN <<[kind |-> "heading",
                  text |-> title(replace(g.dir_name, <<"-">>, <<" ">>)),
                  target |-> <<>>, src |-> <<>>]>>
          ELSE <<>>)
         \o g.files \o GroupLines(Tail(groups))

\* lines 259-288: sidebar_content, one record for each line appended
SidebarContent ==
    <<[kind |-> "title", text |-> config.sidebarTitle, target |-> <<>>, src |-> <<>>],
      [kind |-> "home", text |-> <<"H", "o", "m", "e">>,
       target |-> <<"H", "o", "m", "e">>, src |-> <<>>],
      [kind |-> "section", text |-> <<"Documentation">>, target |-> <<>>, src |-> <<>>]>>
    \o GroupLines(FilesByDir(sorted(docs), <<>>))

\* a faulty create_sidebar: the dry-run test is missing
sidebar_is_dry_never == FALSE

\* create_sidebar, line 254: `if self.dry_run:`
sidebar_is_dry == dry_run

\* a faulty sync_docs: the results of create_home_page and create_sidebar
\* are folded into the flag
SyncDocsReturn_all(ok, home, side) == ok /\ home /\ side

\* sync_docs, line 329: `return success`
SyncDocsReturn(ok, home, side) == ok

\* create_sidebar, and the return of sync_docs to run() that follows it
CreateSidebar ==
    /\ pc = "sidebar"
    /\ IF ~config.createSidebar \/ sidebar_is_dry
       THEN /\ sidebar_result' = "True"
            /\ UNCHANGED <<wiki, fs_mutations, written, sidebar>>
       ELSE \/ /\ sidebar' = SidebarContent
               /\ wiki' = WriteText(wiki, SidebarMd, "sidebar", <<>>, <<>>)
               /\ fs_mutations' = fs_mutations + 1
               /\ written' = written \cup {SidebarMd}
               /\ sidebar_result' = "True"
            \/ /\ sidebar_result' = "False"
               /\ UNCHANGED <<wiki, fs_mutations, written, sidebar>>
    /\ LET ret == SyncDocsReturn(success, home_result = "True",
                                 sidebar_result' = "True")
       IN  /\ sync_result' = Py(ret)
           /\ pc' = AfterSync(ret)
           /\ run_result' = (IF pc' = "done" THEN "False" ELSE run_result)
    /\ UNCHANGED <<config, dry_run, docs_exists, docs, readme_exists,
                   wiki_state, pending, yielded, file_result, setup_result,
                   home_result, vc_failure, subprocess_calls, success>>
    /\ UNCHANGED pathVars

----------------------------------------------------------------------------
(* push_changes                                                            *)

\* push_changes, line 333: `if self.dry_run:`
push_is_dry == dry_run

\* the git commands push_changes runs up to and including command `last`
GitCalls(last) ==
    LET all == <<"git config", "git config", "git status", "git add",
                 "git commit", "git push">>
    IN  SubSeq(all, 1, last)

\* push_changes: git config twice, git status, and when it reports changes
\* git add, git commit and git push; the first command that fails ends it
PushChanges ==
    /\ pc = "push"
    /\ IF push_is_dry
       THEN /\ run_result' = "True"
            /\ UNCHANGED <<subprocess_calls, vc_failure>>
       ELSE \E outcome \in {"config_failed", "no_changes", "add_failed",
                            "commit_failed", "push_failed", "pushed"} :
            /\ subprocess_calls' = subprocess_calls \o
                   GitCalls(CASE outcome = "config_failed" -> 2
                              [] outcome = "no_changes" -> 3
                              [] outcome = "add_failed" -> 4
                              [] outcome = "commit_failed" -> 5
                              [] OTHER -> 6)
            /\ vc_failure' = (CASE outcome = "config_failed" -> "config"
                                [] outcome = "add_failed" -> "add"
                                [] outcome = "commit_failed" -> "commit"
                                [] outcome = "push_failed" -> "push"
                                [] OTHER -> "none")
            /\ run_result' = Py(outcome \in {"no_changes", "pushed"})
    /\ pc' = "done"
    /\ UNCHANGED <<config, dry_run, docs_exists, docs, readme_exists,
                   wiki_state, wiki, pending, yielded, file_result, setup_result,
                   home_result, sidebar_result, sync_result, fs_mutations,
                   written, success, sidebar>>
    /\ UNCHANGED pathVars

Next ==
    \/ SetupWikiRepo
    \/ SyncDocsBegin
    \/ CreateHomePage
    \/ \E f \in docs : SyncFile(f)
    \/ CreateSidebar
    \/ PushChanges

Spec == Init /\ [][Next]_vars

----------------------------------------------------------------------------
(* PathSpec: transform_path and convert_links applied to every relative    *)
(* path of at most MaxLen characters, under every mapping configuration.   *)

PathAlphabet == {"x", "/", ".", "m", "d"}

Paths == UNION {[1..n -> PathAlphabet] : n \in 0..MaxLen}

XMd == <<"x", ".", "m", "d">>

\* customMappings: none; one rule; two rules for one source; a target that
\* holds '.md' before its extension; a rule for a path without extension
PathMappingChoices ==
    { <<>>,
      <<[source |-> XMd, target |-> <<"c", ".", "m", "d">>]>>,
      <<[source |-> XMd, target |-> <<"c", ".", "m", "d">>],
        [source |-> XMd, target |-> <<"e", ".", "m", "d">>]>>,
      <<[source |-> <<".", "m", "d">>, target |-> <<"e">>],
        [source |-> XMd, target |-> <<"v", ".", "m", "d", "x", ".", "m", "d">>]>>,
      <<[source |-> <<"x">>, target |-> <<"c">>]>> }

PathConfigs ==
    { Config(FALSE, <<>>, TRUE, maps, type, links, TRUE) :
        maps \in PathMappingChoices, type \in {"identity", "flatten"},
        links \in BOOLEAN }

PathInit ==
    /\ config \in PathConfigs
    /\ rel_path \in Paths
    /\ content = Link(<<"t">>, <<".", "/">> \o rel_path)
    /\ mapped = <<>>
    /\ converted = <<>>
    /\ step = "input"
    /\ dry_run = FALSE
    /\ docs_exists = FALSE
    /\ docs = {}
    /\ readme_exists = FALSE
    /\ wiki_state = "absent"
    /\ wiki = {}
    /\ pc = "idle"
    /\ pending = {}
    /\ yielded = <<>>
    /\ file_result = <<>>
    /\ setup_result = "none"
    /\ home_result = "none"
    /\ sidebar_result = "none"
    /\ sync_result = "none"
    /\ run_result = "none"
    /\ vc_failure = "none"
    /\ subprocess_calls = <<>>
    /\ fs_mutations = 0
    /\ written = {}
    /\ success = TRUE
    /\ sidebar = <<>>

\* wiki_name = self.transform_path(str(rel_path))
TransformPath ==
    /\ step = "input"
    /\ mapped' = transform_path(rel_path)
    /\ step' = "mapped"
    /\ UNCHANGED <<config, rel_path, content, converted>>
    /\ UNCHANGED runVars

\* content = self.convert_links(content)
ConvertLinks ==
    /\ step = "mapped"
    /\ converted' = convert_links(content)
    /\ step' = "converted"
    /\ UNCHANGED <<config, rel_path, content, mapped>>
    /\ UNCHANGED runVars

PathNext == TransformPath \/ ConvertLinks

PathSpec == PathInit /\ [][PathNext]_vars

----------------------------------------------------------------------------
(* What the claims are stated with.                                        *)

\* s with one trailing '.md' removed, when it has one
StripTrailingMd(s) ==
    IF endswith(s, DotMd) THEN SubSeq(s, 1, Len(s) - 3) ELSE s

\* the indices of the override rules whose source is exactly rel
MatchingRules(rel) ==
    {i \in 1..Len(config.customMappings) : config.customMappings[i].source = rel}

\* the least element of a non-empty set of numbers
Least(I) == CHOOSE i \in I : \A j \in I : i <= j

\* the target of the one link a synced document's output holds
WrittenLinkTarget(text) ==
    SubSeq(text, IndexOf(text, "(", 1) + 1, IndexOf(text, ")", 1) - 1)

SyncErrors == {"read_error", "write_error"}

FileFailed == \E f \in docs : file_result[f] \in SyncErrors

AllFilesAttempted == \A f \in docs : file_result[f] # "none"

\* home page, every file and sidebar have been dealt with
LocalWorkDone ==
    /\ home_result # "none"
    /\ AllFilesAttempted
    /\ sidebar_result # "none"

\* no phase of sync_docs has started
NoLocalWork ==
    /\ home_result = "none"
    /\ \A f \in docs : file_result[f] = "none"
    /\ sidebar_result = "none"
    /\ written = {}

\* the commands of push_changes that publish
PublishCalls == {"git add", "git commit", "git push"}

Called(cmds) ==
    \E i \in 1..Len(subprocess_calls) : subprocess_calls[i] \in cmds

\* push_changes has been entered
PushInvoked ==
    \/ pc = "push"
    \/ pc = "done" /\ run_result = "True"
    \/ vc_failure \in {"config", "add", "commit", "push"}

\* the places of the sidebar's lines of one kind
LinesOf(kind) == {i \in 1..Len(sidebar) : sidebar[i].kind = kind}

\* the place in the sorted traversal where a directory group is first seen
FirstSeen(dir_name) ==
    LET order == sorted({f \in docs : ~should_exclude(DocsPath(f))})
    IN  Least({i \in 1..Len(order) : DirName(order[i]) = dir_name})

----------------------------------------------------------------------------
(* C1: for synced documents D and E, D linking to ./<E's relative path>,   *)
(* the link target written into D's output is transform_path of E's        *)
(* relative path, which also names E's destination file and is the target  *)
(* of E's sidebar entry.                                                   *)
C1_LinkRewriteConsistency ==
    \A e \in wiki :
        LET E == LinkedFrom(e.src) IN
        (/\ e.kind = "doc"
         /\ config.convertRelativeLinks
         /\ E \in docs
         /\ file_result[E] = "written")
        => /\ WrittenLinkTarget(e.content) = transform_path(E)
           /\ \A e2 \in wiki :
                (e2.kind = "doc" /\ e2.src = E)
                    => e2.name = WikiFile(transform_path(E))
           /\ \A i \in LinesOf("entry") :
                sidebar[i].src = E => sidebar[i].target = transform_path(E)

(* C2: a path that equals the source of an override rule maps to the       *)
(* target of the first such rule with only a trailing .md removed, in      *)
(* flatten and in identity mode alike.                                     *)
C2_OverridePrecedence ==
    (step # "input" /\ MatchingRules(rel_path) # {})
        => mapped = StripTrailingMd(
                        config.customMappings[Least(MatchingRules(rel_path))].target)

(* C3: with no matching override rule transform_path removes exactly one   *)
(* trailing .md and nothing else: identity mode keeps every other          *)
(* character, flatten mode only replaces the separators, and a path        *)
(* without a trailing .md keeps its text.                                  *)
C3_ExtensionStripping ==
    (step # "input" /\ MatchingRules(rel_path) = {})
        => mapped = (IF config.pathTransform.type = "flatten"
                     THEN StripTrailingMd(replace(rel_path, <<"/">>,
                                                  config.pathTransform.separator))
                     ELSE StripTrailingMd(rel_path))

(* C4 as stated: no file should_exclude holds for is the source of a       *)
(* synced document, of a sidebar entry or of Home.md.                      *)
C4_ExcludedNeverContributes ==
    /\ \A e \in wiki :
        /\ e.kind = "doc" => ~should_exclude(DocsPath(e.src))
        /\ e.kind = "home" => ~should_exclude(e.src)
    /\ \A i \in LinesOf("entry") : ~should_exclude(DocsPath(sidebar[i].src))

(* C4 as amended: no file should_exclude holds for is the source of a      *)
(* synced document or of a sidebar entry; Home.md is made from the         *)
(* configured home-page source, else the README, excluded or not.          *)
C4_ExcludedNeverSynced ==
    /\ \A e \in wiki :
        /\ e.kind = "doc" => ~should_exclude(DocsPath(e.src))
        /\ e.kind = "home" => e.src = HomeSource[1]
    /\ \A i \in LinesOf("entry") : ~should_exclude(DocsPath(sidebar[i].src))
    /\ \A f \in docs :
        (should_exclude(DocsPath(f)) /\ file_result[f] # "none")
            => file_result[f] = "excluded"

C4_Witness ==
    /\ pc = "done"
    /\ sidebar # <<>>
    /\ \E f \in docs : file_result[f] = "excluded"
    /\ \E g \in docs : file_result[g] = "written"
    /\ \E e \in wiki : e.kind = "home" /\ should_exclude(e.src)

(* C5: a dry run changes nothing under the destination directory and runs  *)
(* no subprocess, in any phase and under any configuration.                *)
C5_DryRunNoOp ==
    dry_run => /\ fs_mutations = 0
               /\ subprocess_calls = <<>>
               /\ written = {}
               /\ sidebar = <<>>

C5_Witness ==
    /\ dry_run
    /\ pc = "done"
    /\ run_result = "True"
    /\ config.cleanBeforeSync
    /\ config.createSidebar
    /\ home_result = "True"
    /\ \E f \in docs : file_result[f] = "dry"

(* C6: once sync_docs has returned for an existing source directory,       *)
(* sync_file was attempted on every discovered file, and the flag it       *)
(* returned is false exactly when some sync_file call failed.              *)
C6_BestEffortSync ==
    (docs_exists /\ sync_result # "none")
        => /\ AllFilesAttempted
           /\ (sync_result = "False") <=> FileFailed

C6_Witness ==
    /\ sync_result = "False"
    /\ \E i \in 1..Len(yielded), j \in 1..Len(yielded) :
        /\ i < j
        /\ file_result[yielded[i]] \in SyncErrors
        /\ file_result[yielded[j]] = "written"

(* C7 as stated: a run in which clone, pull, commit or push failed         *)
(* returns only after home page, every file and sidebar were dealt with,   *)
(* the files it wrote still in place.                                      *)
C7_VcFailureAfterLocalWork ==
    (~dry_run /\ vc_failure \in {"clone", "pull", "commit", "push"})
        => /\ run_result = "False"
           /\ LocalWorkDone
           /\ written \subseteq Names(wiki)

(* C7 as amended: a failed commit or push ends the run after home page,    *)
(* every file and sidebar were dealt with, the files it wrote still in     *)
(* place; a failed clone or pull ends it before any of that work starts.   *)
C7_PublishFailureAfterLocalWork ==
    /\ (~dry_run /\ vc_failure \in {"commit", "push"})
        => /\ run_result = "False"
           /\ LocalWorkDone
           /\ written \subseteq Names(wiki)
    /\ (~dry_run /\ vc_failure \in {"clone", "pull"})
        => /\ run_result = "False"
           /\ pc = "done"
           /\ NoLocalWork

C7_Witness ==
    /\ vc_failure = "push"
    /\ pc = "done"
    /\ HomeMd \in written
    /\ SidebarMd \in written
    /\ \E f \in docs : file_result[f] = "written"

(* C8: whether the home page was produced and whether the sidebar was      *)
(* enabled or written has no part in what sync_docs returns: with either   *)
(* artifact missing the flag is still decided by the file syncs alone.     *)
C8_OptionalArtifacts ==
    (/\ docs_exists
     /\ sync_result # "none"
     /\ \/ home_result = "False"
        \/ sidebar_result = "False"
        \/ ~config.createSidebar)
        => sync_result = Py(~FileFailed)

C8_Witness ==
    /\ home_result = "False"
    /\ sidebar_result = "False"
    /\ sync_result = "True"
    /\ \E f \in docs : file_result[f] = "written"

(* C9: in a sidebar the Home link precedes every file entry, the entries   *)
(* of files directly under the source root precede every directory group,  *)
(* and the directory groups follow in the order the sorted traversal       *)
(* first sees them.                                                        *)
C9_SidebarOrdering ==
    /\ \A h \in LinesOf("home"), i \in LinesOf("entry") : h < i
    /\ \A i \in LinesOf("entry"), g \in LinesOf("heading") :
        DirName(sidebar[i].src) = Root => i < g
    /\ \A i \in LinesOf("entry"), j \in LinesOf("entry") :
        (/\ DirName(sidebar[i].src) # Root
         /\ DirName(sidebar[j].src) # Root
         /\ FirstSeen(DirName(sidebar[i].src)) < FirstSeen(DirName(sidebar[j].src)))
            => i < j

(* C10: push_changes is entered only after setup_wiki_repo and sync_docs   *)
(* returned true; when a file's sync failed the run returns false with     *)
(* nothing added, committed or pushed, and everything it wrote is still    *)
(* in the destination directory.                                           *)
C10_PublishGating ==
    /\ PushInvoked => (setup_result = "True" /\ sync_result = "True")
    /\ FileFailed => ~PushInvoked /\ ~Called(PublishCalls)
    /\ (FileFailed /\ sync_result # "none")
        => /\ pc = "done"
           /\ run_result = "False"
           /\ written \subseteq Names(wiki)

C10_Witness ==
    /\ pc = "done"
    /\ run_result = "False"
    /\ FileFailed
    /\ HomeMd \in written
    /\ SidebarMd \in written
    /\ \E f \in docs : file_result[f] = "written"

====
